---- MODULE Spec2Model ----
(***************************************************************************)
(* A model of the Audisto API v2 client (src/audisto_client.py): one       *)
(* AudistoClient shared by several caller threads, each running one of     *)
(* get_crawl_status_v2, get_crawl_summary_v2 or iter_chunked against a     *)
(* server whose replies are chosen nondeterministically.                   *)
(***************************************************************************)
EXTENDS Integers, Sequences, FiniteSets, TLC

\* ---------------------------------------------------------------- bounds
NumThreads == 2     \* caller threads sharing the client
MaxReq == 3         \* network calls one iteration may issue before the model stops it
MaxItems == 2       \* items in one page
MaxTotal == 3       \* largest total a page's chunk metadata reports

\* ------------------------------------------------------ program constants
MinChunkSize == 1
MaxChunkSize == 10000
max_retries == 3

Threads == 1..NumThreads

\* ------------------------------------------------------------ JSON values
\* A decoded JSON value (a Python object after resp.json()), tagged by type.
JNull == [t |-> "null"]
JInt(n) == [t |-> "int", v |-> n]
JStr(s) == [t |-> "str", v |-> s]
JList(s) == [t |-> "list", v |-> s]
JDict(f) == [t |-> "dict", v |-> f]

EmptyDict == JDict(<<>>)

\* dict.get(key, default)
DictGet(d, key, default) == IF key \in DOMAIN d.v THEN d.v[key] ELSE default

\* isinstance(data, dict)
IsDict(x) == x.t = "dict"

\* ------------------------------------------------------- caller arguments
\* A crawl_id argument: its Python type and, for numbers, its value.
PyArg(type, val) == [type |-> type, val |-> val]

CrawlIds ==
    {PyArg("int", v) : v \in {-1, 0, 12}}
      \cup {PyArg("str", 0), PyArg("float", 1), PyArg("NoneType", 0), PyArg("bool", 1)}

\* isinstance(crawl_id, int): bool is a subclass of int
IsIntInstance(a) == a.type \in {"int", "bool"}

ChunkSizes == {MinChunkSize - 1, MinChunkSize, MaxChunkSize, MaxChunkSize + 1}

\* ---------------------------------------------------------- URL building
RECURSIVE Decimal(_)
Digit(d) == <<"0", "1", "2", "3", "4", "5", "6", "7", "8", "9">>[d + 1]
Decimal(n) == IF n < 10 THEN <<Digit(n)>> ELSE Decimal(n \div 10) \o <<Digit(n % 10)>>

\* f"{crawl_id}" for a value that passed the check of line 116
FormatId(a) ==
    IF a.type = "bool"
    THEN (IF a.val = 1 THEN <<"True">> ELSE <<"False">>)
    ELSE Decimal(a.val)

\* _url(path): base_url/api_version is the same prefix of every URL and is left out
_url(path) == path

StatusPath == <<"/status/crawls">>
SummaryPath(a) == <<"/crawls/">> \o FormatId(a)
ChunkedPath == <<"/crawls/1/pages/">>

\* ---------------------------------------------------------- server replies
Forcelist == {429, 500, 502, 503, 504}      \* status_forcelist of the Retry policy

\* Outcomes of one attempt of session.get: an HTTP status, or a transport error.
StatusOutcome(s) == [kind |-> "status", status |-> s, error |-> "none"]
ErrorOutcome(e) == [kind |-> "error", status |-> 0, error |-> e]
Outcomes ==
    {StatusOutcome(s) : s \in {200, 404, 429, 503}}
      \cup {ErrorOutcome(e) : e \in {"ConnectTimeout", "ConnectionError"}}

\* The adapter retries an attempt that got a forcelist status or a transport error.
Retryable(o) == o.kind = "error" \/ o.status \in Forcelist

\* An item of a chunked page, and the items of the k-th page a server sends.
Item(i) == JDict("id" :> JInt(i))
PageItems(k, n) == [i \in 1..n |-> Item((k - 1) * MaxItems + i)]

\* What a chunk object may hold under each key. A null total or size reads as
\* None exactly like an absent key (lines 174-175); only page, whose default is
\* not None (line 176), is given a null of its own.
MetaKeys == {"total", "page", "size"}
MetaVals(key) ==
    CASE key = "total" -> {JInt(n) : n \in 1..MaxTotal}
      [] key = "page" -> {JNull} \cup {JInt(n) : n \in 0..1}
      [] key = "size" -> {JInt(n) : n \in 1..2}

\* Every chunk object: any subset of total/page/size under those values.
Metas ==
    UNION { {m \in [S -> UNION {MetaVals(key) : key \in MetaKeys}] :
                \A key \in S : m[key] \in MetaVals(key)} : S \in SUBSET MetaKeys }

\* The shape of a mapping body: how many items (-1: no items key) and what is
\* under the chunk key (a chunk object, null, or no chunk key).
NoKey == [t |-> "absent"]
ChunkShapes ==
    {[n |-> n, chunk |-> c] :
        n \in (-1)..MaxItems, c \in {NoKey, JNull} \cup {JDict(m) : m \in Metas}}

\* The body of that shape sent in reply to the k-th request of an iteration.
ShapedBody(k, shape) ==
    JDict((IF shape.n >= 0 THEN "items" :> JList(PageItems(k, shape.n)) ELSE <<>>)
            @@ (IF shape.chunk.t # "absent" THEN "chunk" :> shape.chunk ELSE <<>>))

\* Bodies of a 200 reply to the k-th request of a chunked iteration.
ChunkBodies(k) ==
    {JNull, JList(<<Item(1)>>)} \cup {ShapedBody(k, shape) : shape \in ChunkShapes}

\* The bodies the concurrent specification draws from: the k-th page of the
\* three-item collection of test_iter_chunked_stops, served two items a page,
\* an empty page, and a body that is no mapping.
ConcChunkBodies(k) ==
    {JList(<<Item(1)>>),
     JDict("items" :> JList(<<>>)),
     JDict(("items" :> JList(PageItems(k, IF k = 1 THEN 2 ELSE 1)))
             @@ ("chunk" :> JDict(("total" :> JInt(3)) @@ ("page" :> JInt(k - 1))
                                    @@ ("size" :> JInt(2)))))}

CrawlItem == JDict(("id" :> JInt(1)) @@ ("domain" :> JStr("example.com"))
                     @@ ("status" :> JStr("finished")))

\* The second item of test_get_crawl_status_v2_success_with_items.
CrawlItem2 == JDict(("id" :> JInt(2)) @@ ("domain" :> JStr("test.com"))
                      @@ ("status" :> JStr("in_progress")))

\* What a crawl-status list may hold: the items of the tests, an item whose id
\* is no integer, a number, and a two-element list.
StatusElems ==
    {CrawlItem, CrawlItem2, JDict("id" :> JStr("abc")), JInt(5),
     JList(<<JStr("a"), JInt(1)>>)}

\* Every list of at most MaxItems such elements.
StatusLists ==
    UNION {{JList(q) : q \in [1..n -> StatusElems]} : n \in 0..MaxItems}

\* Bodies of a 200 reply of the crawl-status endpoint: a mapping with an items
\* key (a list, or something else), a mapping without one, a bare list, a
\* scalar, null.
StatusBodies ==
    {JDict("items" :> l) : l \in StatusLists \cup {JNull, JInt(5)}}
      \cup {EmptyDict, JDict("error" :> JStr("x"))}
      \cup StatusLists
      \cup {JInt(5), JStr("ok"), JNull}

SummaryBodies ==
    {JDict(("domain" :> JStr("example.com")) @@ ("crawled_pages" :> JInt(42))),
     JDict("crawled_pages" :> JStr("many")), JList(<<>>)}

\* The bodies the concurrent specification draws from for the two unpaged endpoints.
ConcStatusBodies == {JDict("items" :> JList(<<CrawlItem>>)), JInt(5)}
ConcSummaryBodies ==
    {JDict(("domain" :> JStr("example.com")) @@ ("crawled_pages" :> JInt(42))), JList(<<>>)}

\* ------------------------------------------------------------------ state
VARIABLES
    pc,         \* where each caller thread is
    op,         \* the operation it called and its argument
    lock,       \* self._lock: TRUE while some thread holds it
    attempts,   \* retries the adapter has used up in the thread's current session.get
    resp,       \* the last response the thread received (status, decoded body)
    page,       \* iter_chunked's local page counter
    idx,        \* items of the current page already yielded
    result,     \* how the operation ended
    reqs,       \* history: the session.get calls the thread's operation issued
    fetched,    \* history: the items arrays of the pages an iteration received
    yielded,    \* history: the items handed to the consumer
    asks,       \* history: the consumer's next() calls
    env,        \* os.environ: AUDISTO_API_KEY and AUDISTO_PASSWORD
    tool,       \* the tool of server.py each caller has invoked, and its argument
    out,        \* what that tool handed back to the agent-facing layer
    server      \* the server process: before, past or stopped at the startup check

\* The state of the tool layer of server.py; the operations of the client leave
\* it alone.
toolvars == <<env, tool, out, server>>

vars == <<pc, op, lock, attempts, resp, page, idx, result, reqs, fetched, yielded, asks,
          env, tool, out, server>>

NoOp == [name |-> "none", arg |-> PyArg("NoneType", 0)]
NoResp == [status |-> 0, body |-> JNull]
NoResult == [kind |-> "none", status |-> 0, value |-> JNull]
Returned(kind, value) == [kind |-> kind, status |-> 0, value |-> value]
Raised(kind) == [kind |-> kind, status |-> 0, value |-> JNull]
HTTPError(s) == [kind |-> "HTTPError", status |-> s, value |-> JNull]

\* The arguments the agent-facing layer passes to get_crawl_summary: integers.
ToolCrawlIds == {PyArg("int", v) : v \in {-1, 0, 12}}

\* What os.getenv finds under a name: nothing, an empty string, a value.
EnvVals == {"unset", "empty", "set"}
EnvNames == {"AUDISTO_API_KEY", "AUDISTO_PASSWORD"}

NoTool == [name |-> "none", arg |-> PyArg("NoneType", 0)]

\* What a tool hands back: nothing yet, a text, or (in no code path of
\* server.py) an exception that leaves the tool.
NoOut == [kind |-> "none", msg |-> "", detail |-> <<>>]
Text(msg, detail) == [kind |-> "text", msg |-> msg, detail |-> detail]
Propagated(kind) == [kind |-> "raised", msg |-> kind, detail |-> <<>>]

\* A client built by its caller, no tool of server.py in use.
ClientInit ==
    /\ pc = [t \in Threads |-> "idle"]
    /\ op = [t \in Threads |-> NoOp]
    /\ lock = FALSE
    /\ attempts = [t \in Threads |-> 0]
    /\ resp = [t \in Threads |-> NoResp]
    /\ page = [t \in Threads |-> JNull]
    /\ idx = [t \in Threads |-> 0]
    /\ result = [t \in Threads |-> NoResult]
    /\ reqs = [t \in Threads |-> <<>>]
    /\ fetched = [t \in Threads |-> <<>>]
    /\ yielded = [t \in Threads |-> <<>>]
    /\ asks = [t \in Threads |-> 0]

\* The tool layer at rest.
ToolsIdle ==
    /\ tool = [t \in Threads |-> NoTool]
    /\ out = [t \in Threads |-> NoOut]
    /\ server = "init"

\* The client as the tests build it, with both credentials in the environment.
Init ==
    /\ ClientInit
    /\ ToolsIdle
    /\ env = [n \in EnvNames |-> "set"]

\* The server module loaded under any environment.
ToolInit ==
    /\ ClientInit
    /\ ToolsIdle
    /\ env \in [EnvNames -> EnvVals]

\* The request the thread is about to send: URL and query parameters.
Request(t) ==
    CASE op[t].name = "status" -> [url |-> _url(StatusPath), params |-> <<>>]
      [] op[t].name = "summary" -> [url |-> _url(SummaryPath(op[t].arg)), params |-> <<>>]
      [] op[t].name = "iter" ->
            [url |-> _url(ChunkedPath),
             params |-> ("chunk" :> page[t]) @@ ("chunksize" :> JInt(op[t].arg.val))]

\* The thread's operation ends by raising `kind`.
Fail(t, kind) ==
    /\ pc' = [pc EXCEPT ![t] = "failed"]
    /\ result' = [result EXCEPT ![t] = Raised(kind)]

\* ------------------------------------------------------------- the calls
\* A thread calls get_crawl_status_v2(): the URL is built, the lock is next.
CallStatus(t) ==
    /\ pc[t] = "idle"
    /\ op' = [op EXCEPT ![t] = [name |-> "status", arg |-> PyArg("NoneType", 0)]]
    /\ pc' = [pc EXCEPT ![t] = "wait_lock"]
    /\ UNCHANGED <<lock, attempts, resp, page, idx, result, reqs, fetched, yielded, asks>>
    /\ UNCHANGED toolvars

\* Mutant of BadCrawlId: zero is rejected too ("must be a positive integer").
BadCrawlIdRejectsZero(a) == ~IsIntInstance(a) \/ a.val <= 0

\* The check of line 116.
BadCrawlId(a) == ~IsIntInstance(a) \/ a.val < 0

\* A thread calls get_crawl_summary_v2(crawl_id).
CallSummary(t, a) ==
    /\ pc[t] = "idle"
    /\ op' = [op EXCEPT ![t] = [name |-> "summary", arg |-> a]]
    /\ IF BadCrawlId(a)
       THEN Fail(t, "ValueError")
       ELSE pc' = [pc EXCEPT ![t] = "wait_lock"] /\ UNCHANGED result
    /\ UNCHANGED <<lock, attempts, resp, page, idx, reqs, fetched, yielded, asks>>
    /\ UNCHANGED toolvars

\* Mutant of CallIterChunked: the body runs up to its first request at the call.
CallIterChunkedEager(t, cs) ==
    /\ pc[t] = "idle"
    /\ op' = [op EXCEPT ![t] = [name |-> "iter", arg |-> PyArg("int", cs)]]
    /\ pc' = [pc EXCEPT ![t] = "wait_lock"]
    /\ page' = [page EXCEPT ![t] = JInt(0)]
    /\ UNCHANGED <<lock, attempts, resp, idx, result, reqs, fetched, yielded, asks>>
    /\ UNCHANGED toolvars

\* A thread calls iter_chunked(path, chunksize): Python creates the generator
\* object and runs none of the function's body.
CallIterChunked(t, cs) ==
    /\ pc[t] = "idle"
    /\ op' = [op EXCEPT ![t] = [name |-> "iter", arg |-> PyArg("int", cs)]]
    /\ pc' = [pc EXCEPT ![t] = "created"]
    /\ UNCHANGED <<lock, attempts, resp, page, idx, result, reqs, fetched, yielded, asks>>
    /\ UNCHANGED toolvars

\* Mutant of BadChunkSize: only the upper limit is checked.
BadChunkSizeUpperOnly(cs) == cs > MaxChunkSize

\* The check of line 147.
BadChunkSize(cs) == cs < MinChunkSize \/ cs > MaxChunkSize

\* The consumer's first next(): the body runs from its start to the lock of the
\* first request, or raises on a bad chunk size.
GenStart(t) ==
    /\ pc[t] = "created"
    /\ asks' = [asks EXCEPT ![t] = @ + 1]
    /\ IF BadChunkSize(op[t].arg.val)
       THEN Fail(t, "ValueError") /\ UNCHANGED page
       ELSE /\ page' = [page EXCEPT ![t] = JInt(0)]
            /\ pc' = [pc EXCEPT ![t] = "wait_lock"]
            /\ UNCHANGED result
    /\ UNCHANGED <<op, lock, attempts, resp, idx, reqs, fetched, yielded>>
    /\ UNCHANGED toolvars

\* ------------------------------------------------------- the network call
\* Mutant of Acquire: the call is made without waiting for the lock.
AcquireWithoutWaiting(t) ==
    /\ pc[t] = "wait_lock"
    /\ lock' = TRUE
    /\ pc' = [pc EXCEPT ![t] = "in_get"]
    /\ attempts' = [attempts EXCEPT ![t] = 0]
    /\ reqs' = [reqs EXCEPT ![t] = Append(@, Request(t))]
    /\ UNCHANGED <<op, resp, page, idx, result, fetched, yielded, asks>>
    /\ UNCHANGED toolvars

\* `with self._lock:` is entered and session.get is called.
Acquire(t) ==
    /\ pc[t] = "wait_lock"
    /\ ~lock
    /\ lock' = TRUE
    /\ pc' = [pc EXCEPT ![t] = "in_get"]
    /\ attempts' = [attempts EXCEPT ![t] = 0]
    /\ reqs' = [reqs EXCEPT ![t] = Append(@, Request(t))]
    /\ UNCHANGED <<op, resp, page, idx, result, fetched, yielded, asks>>
    /\ UNCHANGED toolvars

\* Mutant of RetryAttempt: the lock is given up for the backoff wait between
\* two attempts.
RetryAttemptOutsideLock(t, o) ==
    /\ pc[t] = "in_get"
    /\ Retryable(o)
    /\ attempts[t] < max_retries
    /\ attempts' = [attempts EXCEPT ![t] = @ + 1]
    /\ lock' = FALSE
    /\ UNCHANGED <<pc, op, resp, page, idx, result, reqs, fetched, yielded, asks>>
    /\ UNCHANGED toolvars

\* An attempt fails in a way the Retry policy covers and retries are left: the
\* adapter backs off and tries again, inside the same session.get.
RetryAttempt(t, o) ==
    /\ pc[t] = "in_get"
    /\ Retryable(o)
    /\ attempts[t] < max_retries
    /\ attempts' = [attempts EXCEPT ![t] = @ + 1]
    /\ UNCHANGED <<pc, op, lock, resp, page, idx, result, reqs, fetched, yielded, asks>>
    /\ UNCHANGED toolvars

\* Mutant of ExhaustedError: a status that outlasts the retries surfaces as the
\* HTTP error of that status.
ExhaustedErrorAsStatus(o) == IF o.kind = "status" THEN "HTTPError" ELSE o.error

\* What session.get raises once the retries are used up.
ExhaustedError(o) == IF o.kind = "status" THEN "RetryError" ELSE o.error

\* Mutant of RetriesExhausted: the lock is released on the success path only.
RetriesExhaustedKeepsLock(t, o) ==
    /\ pc[t] = "in_get"
    /\ Retryable(o)
    /\ attempts[t] = max_retries
    /\ Fail(t, ExhaustedError(o))
    /\ UNCHANGED <<op, lock, attempts, resp, page, idx, reqs, fetched, yielded, asks>>
    /\ UNCHANGED toolvars

\* The last permitted attempt fails too: session.get raises, and leaving the
\* with block releases the lock.
RetriesExhausted(t, o) ==
    /\ pc[t] = "in_get"
    /\ Retryable(o)
    /\ attempts[t] = max_retries
    /\ lock' = FALSE
    /\ Fail(t, ExhaustedError(o))
    /\ UNCHANGED <<op, attempts, resp, page, idx, reqs, fetched, yielded, asks>>
    /\ UNCHANGED toolvars

\* Mutant of Return: the with block reaches past the call, so the lock is still
\* held while the response is processed and its items are yielded.
ReturnInsideLock(t, s, body) ==
    /\ pc[t] = "in_get"
    /\ s \notin Forcelist
    /\ resp' = [resp EXCEPT ![t] = [status |-> s, body |-> body]]
    /\ pc' = [pc EXCEPT ![t] = "got_resp"]
    /\ attempts' = [attempts EXCEPT ![t] = 0]
    /\ UNCHANGED <<op, lock, page, idx, result, reqs, fetched, yielded, asks>>
    /\ UNCHANGED toolvars

\* session.get returns a response (a status outside the forcelist); leaving the
\* with block releases the lock. The adapter's retry counter lives in the call
\* and ends with it.
Return(t, s, body) ==
    /\ pc[t] = "in_get"
    /\ s \notin Forcelist
    /\ lock' = FALSE
    /\ resp' = [resp EXCEPT ![t] = [status |-> s, body |-> body]]
    /\ pc' = [pc EXCEPT ![t] = "got_resp"]
    /\ attempts' = [attempts EXCEPT ![t] = 0]
    /\ UNCHANGED <<op, page, idx, result, reqs, fetched, yielded, asks>>
    /\ UNCHANGED toolvars

\* Mutant of RaiseForStatus: the error raised does not carry the status.
RaiseForStatusWithoutCode(t) ==
    /\ pc[t] = "got_resp"
    /\ resp[t].status >= 400
    /\ pc' = [pc EXCEPT ![t] = "failed"]
    /\ result' = [result EXCEPT ![t] = HTTPError(0)]
    /\ UNCHANGED <<op, lock, attempts, resp, page, idx, reqs, fetched, yielded, asks>>
    /\ UNCHANGED toolvars

\* resp.raise_for_status() on a 4xx/5xx response.
RaiseForStatus(t) ==
    /\ pc[t] = "got_resp"
    /\ resp[t].status >= 400
    /\ pc' = [pc EXCEPT ![t] = "failed"]
    /\ result' = [result EXCEPT ![t] = HTTPError(resp[t].status)]
    /\ UNCHANGED <<op, lock, attempts, resp, page, idx, reqs, fetched, yielded, asks>>
    /\ UNCHANGED toolvars

\* ------------------------------------------------------ response models
\* The fields of the pydantic models of src/models.py and their types.
CrawlStatusFields == ("id" :> "int") @@ ("domain" :> "str") @@ ("status" :> "str")
CrawlSummaryFields ==
    ("id" :> "int") @@ ("domain" :> "str") @@ ("crawled_pages" :> "int")
      @@ ("max_depth" :> "int") @@ ("start_time" :> "str")

\* Whether `d` validates as a model with these Optional fields (extra keys are ignored).
ValidModel(d, fields) ==
    /\ IsDict(d)
    /\ \A key \in DOMAIN fields \cap DOMAIN d.v : d.v[key].t \in {"null", fields[key]}

\* The model instance: every field, absent ones None.
BuildModel(d, fields) == JDict([key \in DOMAIN fields |-> DictGet(d, key, JNull)])

\* Whether `x` validates as List[CrawlStatus].
ValidItems(x) ==
    /\ x.t = "list"
    /\ \A i \in 1..Len(x.v) : ValidModel(x.v[i], CrawlStatusFields)

\* CrawlStatusResponse(items=x) for a valid x.
CrawlStatusResponse(x) ==
    Returned("CrawlStatusResponse",
             JList([i \in 1..Len(x.v) |-> BuildModel(x.v[i], CrawlStatusFields)]))

\* What dict() makes of one element of a sequence: a key/value pair when the
\* element is a two-element list with a string key, TypeError when it cannot be
\* iterated, ValueError when its length is not 2. (A mapping of exactly two
\* keys would give a pair of its keys; no body of the model holds one.)
PairError(e) ==
    CASE e.t \in {"int", "null"} -> "TypeError"
      [] e.t = "list" /\ Len(e.v) # 2 -> "ValueError"
      [] e.t = "list" /\ Len(e.v) = 2 -> IF e.v[1].t = "str" THEN "none" ELSE "TypeError"
      [] e.t = "dict" /\ Cardinality(DOMAIN e.v) # 2 -> "ValueError"

\* Python's dict(x) for a decoded body that is not a dict: the mapping of the
\* pairs of a list, the error of its first element that is no pair, TypeError
\* for a number or null, ValueError for a string that is not made of pairs.
DictCall(x) ==
    CASE x.t = "list" ->
            LET bad == {i \in 1..Len(x.v) : PairError(x.v[i]) # "none"}
            IN  IF bad = {}
                THEN Returned("dict",
                        JDict([key \in {x.v[i].v[1].v : i \in 1..Len(x.v)} |->
                                 x.v[CHOOSE i \in 1..Len(x.v) :
                                        /\ x.v[i].v[1].v = key
                                        /\ \A j \in 1..Len(x.v) :
                                              x.v[j].v[1].v = key => j <= i].v[2]]))
                ELSE Raised(PairError(x.v[CHOOSE i \in bad : \A j \in bad : i <= j]))
      [] x.t \in {"int", "null"} -> Raised("TypeError")
      [] x.t = "str" -> Raised("ValueError")

\* Mutant of ParseStatus: a bare list is not wrapped but handed to the fallback.
ParseStatusListUnwrapped(data) ==
    LET fallback == IF IsDict(data) THEN Returned("dict", data) ELSE DictCall(data)
    IN  IF IsDict(data) /\ "items" \in DOMAIN data.v
        THEN IF ValidItems(data.v["items"])
             THEN CrawlStatusResponse(data.v["items"])
             ELSE fallback
        ELSE fallback

\* Lines 94-105: validate, or fall back to the raw body as a dict.
ParseStatus(data) ==
    LET fallback == IF IsDict(data) THEN Returned("dict", data) ELSE DictCall(data)
    IN  IF IsDict(data) /\ "items" \in DOMAIN data.v
        THEN IF ValidItems(data.v["items"])
             THEN CrawlStatusResponse(data.v["items"])
             ELSE fallback
        ELSE IF data.t = "list"
             THEN IF ValidItems(data) THEN CrawlStatusResponse(data) ELSE fallback
             ELSE fallback

\* Line 129: CrawlSummary(**data).
ParseSummary(data) ==
    IF ~IsDict(data) THEN Raised("TypeError")
    ELSE IF ValidModel(data, CrawlSummaryFields)
         THEN Returned("CrawlSummary", BuildModel(data, CrawlSummaryFields))
         ELSE Raised("ValidationError")

\* The operation ends with outcome `r`, returned or raised.
Finish(t, r) ==
    /\ pc' = [pc EXCEPT ![t] = IF r.kind \in {"dict", "CrawlStatusResponse", "CrawlSummary"}
                                THEN "done" ELSE "failed"]
    /\ result' = [result EXCEPT ![t] = r]

\* get_crawl_status_v2 after a 2xx response: lines 90-105.
StatusParse(t) ==
    /\ pc[t] = "got_resp"
    /\ resp[t].status < 400
    /\ op[t].name = "status"
    /\ Finish(t, ParseStatus(resp[t].body))
    /\ UNCHANGED <<op, lock, attempts, resp, page, idx, reqs, fetched, yielded, asks>>
    /\ UNCHANGED toolvars

\* get_crawl_summary_v2 after a 2xx response: lines 126-129.
SummaryParse(t) ==
    /\ pc[t] = "got_resp"
    /\ resp[t].status < 400
    /\ op[t].name = "summary"
    /\ Finish(t, ParseSummary(resp[t].body))
    /\ UNCHANGED <<op, lock, attempts, resp, page, idx, reqs, fetched, yielded, asks>>
    /\ UNCHANGED toolvars

\* --------------------------------------------------------- iter_chunked
\* items = data.get("items", [])
ItemsOf(data) == DictGet(data, "items", JList(<<>>)).v

\* Mutant of Bookkeeping: the last-page test is > instead of >=.
BookkeepingStrictlyGreater(data, pg) ==
    LET chunk_meta == DictGet(data, "chunk", EmptyDict)
    IN  IF ~IsDict(chunk_meta)
        THEN [next |-> "raise", page |-> pg, err |-> "AttributeError"]
        ELSE LET total == DictGet(chunk_meta, "total", JNull)
                 size == DictGet(chunk_meta, "size", JNull)
                 newpage == DictGet(chunk_meta, "page", pg)
             IN  IF Len(ItemsOf(data)) = 0 \/ total.t = "null"
                 THEN [next |-> "stop", page |-> newpage, err |-> "none"]
                 ELSE IF newpage.t = "null"
                 THEN [next |-> "raise", page |-> newpage, err |-> "TypeError"]
                 ELSE IF size.t # "null" /\ (newpage.v + 1) * size.v > total.v
                 THEN [next |-> "stop", page |-> newpage, err |-> "none"]
                 ELSE [next |-> "loop", page |-> JInt(newpage.v + 1), err |-> "none"]

\* Mutant of Bookkeeping: a page without items does not end the iteration.
BookkeepingIgnoresEmptyPage(data, pg) ==
    LET chunk_meta == DictGet(data, "chunk", EmptyDict)
    IN  IF ~IsDict(chunk_meta)
        THEN [next |-> "raise", page |-> pg, err |-> "AttributeError"]
        ELSE LET total == DictGet(chunk_meta, "total", JNull)
                 size == DictGet(chunk_meta, "size", JNull)
                 newpage == DictGet(chunk_meta, "page", pg)
             IN  IF total.t = "null"
                 THEN [next |-> "stop", page |-> newpage, err |-> "none"]
                 ELSE IF newpage.t = "null"
                 THEN [next |-> "raise", page |-> newpage, err |-> "TypeError"]
                 ELSE IF size.t # "null" /\ (newpage.v + 1) * size.v >= total.v
                 THEN [next |-> "stop", page |-> newpage, err |-> "none"]
                 ELSE [next |-> "loop", page |-> JInt(newpage.v + 1), err |-> "none"]

\* Mutant of Bookkeeping: the page the server reports is ignored.
BookkeepingIgnoresReportedPage(data, pg) ==
    LET chunk_meta == DictGet(data, "chunk", EmptyDict)
    IN  IF ~IsDict(chunk_meta)
        THEN [next |-> "raise", page |-> pg, err |-> "AttributeError"]
        ELSE LET total == DictGet(chunk_meta, "total", JNull)
                 size == DictGet(chunk_meta, "size", JNull)
                 newpage == pg
             IN  IF Len(ItemsOf(data)) = 0 \/ total.t = "null"
                 THEN [next |-> "stop", page |-> newpage, err |-> "none"]
                 ELSE IF newpage.t = "null"
                 THEN [next |-> "raise", page |-> newpage, err |-> "TypeError"]
                 ELSE IF size.t # "null" /\ (newpage.v + 1) * size.v >= total.v
                 THEN [next |-> "stop", page |-> newpage, err |-> "none"]
                 ELSE [next |-> "loop", page |-> JInt(newpage.v + 1), err |-> "none"]

\* Mutant of Bookkeeping: a page with items and no total is followed by another.
BookkeepingLoopsWithoutTotal(data, pg) ==
    LET chunk_meta == DictGet(data, "chunk", EmptyDict)
    IN  IF ~IsDict(chunk_meta)
        THEN [next |-> "raise", page |-> pg, err |-> "AttributeError"]
        ELSE LET total == DictGet(chunk_meta, "total", JNull)
                 size == DictGet(chunk_meta, "size", JNull)
                 newpage == DictGet(chunk_meta, "page", pg)
             IN  IF Len(ItemsOf(data)) = 0
                 THEN [next |-> "stop", page |-> newpage, err |-> "none"]
                 ELSE IF newpage.t = "null"
                 THEN [next |-> "raise", page |-> newpage, err |-> "TypeError"]
                 ELSE IF total.t # "null" /\ size.t # "null"
                           /\ (newpage.v + 1) * size.v >= total.v
                 THEN [next |-> "stop", page |-> newpage, err |-> "none"]
                 ELSE [next |-> "loop", page |-> JInt(newpage.v + 1), err |-> "none"]

\* Lines 173-182: what follows the yields of a page. next is "stop" (break),
\* "loop" (page += 1 and another request) or "raise".
Bookkeeping(data, pg) ==
    LET chunk_meta == DictGet(data, "chunk", EmptyDict)
    IN  IF ~IsDict(chunk_meta)
        THEN [next |-> "raise", page |-> pg, err |-> "AttributeError"]
        ELSE LET total == DictGet(chunk_meta, "total", JNull)
                 size == DictGet(chunk_meta, "size", JNull)
                 newpage == DictGet(chunk_meta, "page", pg)
             IN  IF Len(ItemsOf(data)) = 0 \/ total.t = "null"
                 THEN [next |-> "stop", page |-> newpage, err |-> "none"]
                 ELSE IF newpage.t = "null"
                 THEN [next |-> "raise", page |-> newpage, err |-> "TypeError"]
                 ELSE IF size.t # "null" /\ (newpage.v + 1) * size.v >= total.v
                 THEN [next |-> "stop", page |-> newpage, err |-> "none"]
                 ELSE [next |-> "loop", page |-> JInt(newpage.v + 1), err |-> "none"]

\* The generator runs lines 173-182 and then ends, fails, or goes for the next
\* page. On the way to the next page resp, data and items are dead (lines 160-167
\* assign them before any read), so the model forgets the response there.
AfterPage(t) ==
    LET b == Bookkeeping(resp[t].body, page[t])
    IN  /\ page' = [page EXCEPT ![t] = b.page]
        /\ resp' = [resp EXCEPT ![t] = IF b.next = "loop" THEN NoResp ELSE @]
        /\ CASE b.next = "stop" ->
                  /\ pc' = [pc EXCEPT ![t] = "done"]
                  /\ result' = [result EXCEPT ![t] = Returned("StopIteration", JNull)]
             [] b.next = "raise" -> Fail(t, b.err)
             [] b.next = "loop" ->
                  /\ Len(reqs[t]) < MaxReq
                  /\ pc' = [pc EXCEPT ![t] = "wait_lock"]
                  /\ UNCHANGED result

\* Mutant of YieldItem: the items of a page are handed out last first.
YieldItemFromEnd(t) ==
    /\ yielded' = [yielded EXCEPT ![t] =
                      Append(@, ItemsOf(resp[t].body)[Len(ItemsOf(resp[t].body)) - idx[t]])]
    /\ idx' = [idx EXCEPT ![t] = @ + 1]
    /\ pc' = [pc EXCEPT ![t] = "suspended"]

\* The generator hands the next item of the current page to the consumer and
\* is suspended at the yield.
YieldItem(t) ==
    /\ yielded' = [yielded EXCEPT ![t] = Append(@, ItemsOf(resp[t].body)[idx[t] + 1])]
    /\ idx' = [idx EXCEPT ![t] = @ + 1]
    /\ pc' = [pc EXCEPT ![t] = "suspended"]

\* Mutant of OnNonMapping: a body that is no mapping ends the sequence quietly.
OnNonMappingStops(t) ==
    /\ pc' = [pc EXCEPT ![t] = "done"]
    /\ result' = [result EXCEPT ![t] = Returned("StopIteration", JNull)]
    /\ UNCHANGED <<resp, page, idx, fetched, yielded>>

\* Lines 164-165: the body is not a dict.
OnNonMapping(t) ==
    /\ Fail(t, "RuntimeError")
    /\ UNCHANGED <<resp, page, idx, fetched, yielded>>

\* iter_chunked after a 2xx response: lines 163-171, up to the first yield of
\* the page, or through lines 173-181 when the page has no items.
ChunkParse(t) ==
    /\ pc[t] = "got_resp"
    /\ resp[t].status < 400
    /\ op[t].name = "iter"
    /\ IF ~IsDict(resp[t].body)
       THEN OnNonMapping(t)
       ELSE /\ fetched' = [fetched EXCEPT ![t] = Append(@, ItemsOf(resp[t].body))]
            /\ IF Len(ItemsOf(resp[t].body)) > 0
               THEN /\ idx[t] = 0
                    /\ YieldItem(t)
                    /\ UNCHANGED <<resp, page, result>>
               ELSE AfterPage(t) /\ UNCHANGED <<idx, yielded>>
    /\ UNCHANGED <<op, lock, attempts, reqs, asks>>
    /\ UNCHANGED toolvars

\* Mutant of PageExhausted: the page counts as done after its first item.
PageExhaustedAfterFirst(t) == idx[t] >= 1

\* Whether `yield from items` has handed out every item of the current page.
PageExhausted(t) == idx[t] = Len(ItemsOf(resp[t].body))

\* The consumer asks for another item and the current page has one left.
NextItem(t) ==
    /\ pc[t] = "suspended"
    /\ idx[t] < Len(ItemsOf(resp[t].body))
    /\ asks' = [asks EXCEPT ![t] = @ + 1]
    /\ YieldItem(t)
    /\ UNCHANGED <<op, lock, attempts, resp, page, result, reqs, fetched>>
    /\ UNCHANGED toolvars

\* The consumer asks for another item after the last one of the page.
NextPage(t) ==
    /\ pc[t] = "suspended"
    /\ PageExhausted(t)
    /\ asks' = [asks EXCEPT ![t] = @ + 1]
    /\ idx' = [idx EXCEPT ![t] = 0]
    /\ AfterPage(t)
    /\ UNCHANGED <<op, lock, attempts, reqs, fetched, yielded>>
    /\ UNCHANGED toolvars

\* The consumer gives the sequence up, before its first item or between two
\* yields: the generator is closed and its frame (resp, page, the position in
\* items) is gone.
Abandon(t) ==
    /\ pc[t] \in {"created", "suspended"}
    /\ pc' = [pc EXCEPT ![t] = "closed"]
    /\ resp' = [resp EXCEPT ![t] = NoResp]
    /\ page' = [page EXCEPT ![t] = JNull]
    /\ idx' = [idx EXCEPT ![t] = 0]
    /\ UNCHANGED <<op, lock, attempts, result, reqs, fetched, yielded, asks>>
    /\ UNCHANGED toolvars

\* ------------------------------------------------------ specifications
\* The server answers 200 with one of the bodies its endpoint may send.
ReplyStatus(t) ==
    /\ pc[t] = "in_get" /\ op[t].name = "status"
    /\ \E body \in ConcStatusBodies : Return(t, 200, body)

ReplySummary(t) ==
    /\ pc[t] = "in_get" /\ op[t].name = "summary"
    /\ \E body \in ConcSummaryBodies : Return(t, 200, body)

ReplyChunk(t) ==
    /\ pc[t] = "in_get" /\ op[t].name = "iter"
    /\ \E body \in ChunkBodies(Len(reqs[t])) : Return(t, 200, body)

ReplyChunkConc(t) ==
    /\ pc[t] = "in_get" /\ op[t].name = "iter"
    /\ \E body \in ConcChunkBodies(Len(reqs[t])) : Return(t, 200, body)

\* The server answers 404.
ReplyNotFound(t) == Return(t, 404, JNull)

\* An attempt of the adapter fails in a way its Retry policy covers.
AttemptFails(t) ==
    \E o \in Outcomes : RetryAttempt(t, o) \/ RetriesExhausted(t, o)

CallSummaryAny(t) == \E a \in CrawlIds : CallSummary(t, a)

\* Statuses outside the forcelist that raise_for_status turns into an HTTPError.
ErrorStatuses == {401, 404}

\* The server answers with such a status.
ReplyError(t) == \E s \in ErrorStatuses : Return(t, s, JNull)

\* The 200 replies of the two unpaged endpoints, any body.
ReplyStatusAny(t) ==
    /\ pc[t] = "in_get" /\ op[t].name = "status"
    /\ \E body \in StatusBodies : Return(t, 200, body)

ReplySummaryAny(t) ==
    /\ pc[t] = "in_get" /\ op[t].name = "summary"
    /\ \E body \in SummaryBodies : Return(t, 200, body)

\* Callers sharing one client, running any mix of the three operations.
Next ==
    \E t \in Threads :
        \/ CallStatus(t)
        \/ CallSummaryAny(t)
        \/ CallIterChunked(t, MinChunkSize - 1)
        \/ CallIterChunked(t, MinChunkSize)
        \/ GenStart(t)
        \/ Acquire(t)
        \/ AttemptFails(t)
        \/ ReplyStatus(t)
        \/ ReplySummary(t)
        \/ ReplyChunkConc(t)
        \/ ReplyNotFound(t)
        \/ RaiseForStatus(t)
        \/ StatusParse(t)
        \/ SummaryParse(t)
        \/ ChunkParse(t)
        \/ NextItem(t)
        \/ NextPage(t)
        \/ Abandon(t)

Spec == Init /\ [][Next]_vars

CallIterChunkedAny(t) == \E cs \in ChunkSizes : CallIterChunked(t, cs)

\* One caller iterating a chunked endpoint whose server may send any body.
IterNext ==
    \/ CallIterChunkedAny(1)
    \/ GenStart(1)
    \/ Acquire(1)
    \/ AttemptFails(1)
    \/ ReplyChunk(1)
    \/ ReplyNotFound(1)
    \/ RaiseForStatus(1)
    \/ ChunkParse(1)
    \/ NextItem(1)
    \/ NextPage(1)
    \/ Abandon(1)

IterSpec == Init /\ [][IterNext]_vars

\* One caller of the two unpaged operations against a server that may answer
\* anything.
CallNext ==
    \/ CallStatus(1)
    \/ CallSummaryAny(1)
    \/ Acquire(1)
    \/ AttemptFails(1)
    \/ ReplyStatusAny(1)
    \/ ReplySummaryAny(1)
    \/ ReplyError(1)
    \/ RaiseForStatus(1)
    \/ StatusParse(1)
    \/ SummaryParse(1)

CallSpec == Init /\ [][CallNext]_vars

\* An attempt is answered 429.
RateLimited(t) ==
    \/ RetryAttempt(t, StatusOutcome(429))
    \/ RetriesExhausted(t, StatusOutcome(429))

\* Callers of the three operations against a server that answers every attempt
\* with 429.
RateLimitedNext ==
    \E t \in Threads :
        \/ CallStatus(t)
        \/ CallSummaryAny(t)
        \/ CallIterChunked(t, MinChunkSize)
        \/ GenStart(t)
        \/ Acquire(t)
        \/ RateLimited(t)

RateLimitedSpec == Init /\ [][RateLimitedNext]_vars

\* Pages of a server that reports the same total, MaxTotal, on every page, with
\* a size, and any page index or none; each page holds any number of items.
DrainBodies(k) ==
    {ShapedBody(k, shape) :
        shape \in {sh \in ChunkShapes :
                      /\ sh.n >= 0
                      /\ IsDict(sh.chunk)
                      /\ {"total", "size"} \subseteq DOMAIN sh.chunk.v
                      /\ sh.chunk.v["total"] = JInt(MaxTotal)
                      /\ "page" \in DOMAIN sh.chunk.v => sh.chunk.v["page"].t = "int"}}

ReplyDrain(t) ==
    /\ pc[t] = "in_get" /\ op[t].name = "iter"
    /\ \E body \in DrainBodies(Len(reqs[t])) : Return(t, 200, body)

\* One consumer draining an iteration against such a server.
DrainNext ==
    \/ CallIterChunked(1, MinChunkSize)
    \/ GenStart(1)
    \/ Acquire(1)
    \/ AttemptFails(1)
    \/ ReplyDrain(1)
    \/ ChunkParse(1)
    \/ NextItem(1)
    \/ NextPage(1)

\* The consumer keeps asking and every network call ends (the timeout of line 44).
DrainSpec == Init /\ [][DrainNext]_vars /\ WF_vars(DrainNext)

\* ------------------------------------------------------------ server.py
clientvars == <<pc, op, lock, attempts, resp, page, idx, result, reqs, fetched, yielded, asks>>

MAX_CRAWLS_DISPLAYED == 5

\* The classes an exception of each kind is an instance of (requests'
\* exception tree; pydantic's ValidationError is a ValueError).
Bases(kind) ==
    CASE kind = "ConnectTimeout" ->
            {"ConnectTimeout", "ConnectionError", "Timeout", "RequestException"}
      [] kind \in {"ConnectionError", "RetryError", "HTTPError"} -> {kind, "RequestException"}
      [] kind = "ValidationError" -> {"ValidationError", "ValueError"}
      [] OTHER -> {kind}

IsInstance(e, cls) == cls \in Bases(e.kind)

\* handle_api_error(e, context), lines 37-66.
handle_api_error(e) ==
    IF IsInstance(e, "Timeout")
    THEN Text("Error: Request timeout. Audisto API is not responding.", <<>>)
    ELSE IF IsInstance(e, "HTTPError")
    THEN IF e.status = 404
         THEN Text("Error: Resource not found.", <<>>)
         ELSE IF e.status = 429
         THEN Text("Error: Rate limit exceeded. Please wait and try again.", <<>>)
         ELSE Text("Error: Audisto API returned status ", Decimal(e.status))
    ELSE IF IsInstance(e, "RequestException")
    THEN Text("Error: Failed to connect to Audisto API", <<>>)
    ELSE IF IsInstance(e, "ValueError")
    THEN Text("Error: Missing or invalid credentials", <<>>)
    ELSE Text("Error: An unexpected error occurred", <<>>)

\* Mutant of get_auth: only a variable that is not set counts as missing.
get_auth_unset_only(e) ==
    IF e["AUDISTO_API_KEY"] = "unset" \/ e["AUDISTO_PASSWORD"] = "unset"
    THEN Raised("ValueError")
    ELSE Returned("tuple", JNull)

\* get_auth(), lines 76-83: `not api_key or not password` holds for a variable
\* that is not set and for an empty one.
get_auth(e) ==
    IF e["AUDISTO_API_KEY"] # "set" \/ e["AUDISTO_PASSWORD"] # "set"
    THEN Raised("ValueError")
    ELSE Returned("tuple", JNull)

\* validate_startup_credentials(), lines 214-220.
validate_startup_credentials(e) == get_auth(e).kind # "ValueError"

\* Lines 222-227: the server runs only past the check of its credentials.
Main ==
    /\ server = "init"
    /\ server' = IF validate_startup_credentials(env) THEN "running" ELSE "exited"
    /\ UNCHANGED <<clientvars, env, tool, out>>

\* Mutant of ExceptStatus: what handle_api_error has no message for is raised again.
ExceptStatusReraises(e) ==
    IF handle_api_error(e).msg = "Error: An unexpected error occurred"
    THEN Propagated(e.kind)
    ELSE handle_api_error(e)

\* Lines 172-173: the except clause of get_crawl_status.
ExceptStatus(e) == handle_api_error(e)

\* Lines 198-205: the except clause of get_crawl_summary.
ExceptSummary(e, a) ==
    IF IsInstance(e, "HTTPError") /\ e.status = 404
    THEN Text("Error: Crawl ID not found.", FormatId(a))
    ELSE handle_api_error(e)

ToolExcept(tl, e) ==
    IF tl.name = "get_crawl_status" THEN ExceptStatus(e) ELSE ExceptSummary(e, tl.arg)

\* `x or 'N/A'` of lines 190-193.
OrNA(x) ==
    IF x.t = "null" \/ (x.t = "int" /\ x.v = 0) \/ (x.t = "str" /\ x.v = "")
    THEN JStr("N/A") ELSE x

\* Lines 153-167: the line of one crawl. A model and a dict give their id,
\* domain and status, anything else gives None.
CrawlLine(crawl) ==
    LET field(key) == IF IsDict(crawl) THEN DictGet(crawl, key, JNull) ELSE JNull
    IN  <<IF field("status") = JStr("finished") THEN "finished" ELSE "pending",
          field("id"), field("domain"), field("status")>>

\* Lines 138-170: the text get_crawl_status makes of what the client returned.
FormatStatus(r) ==
    LET items == IF r.kind = "CrawlStatusResponse" THEN r.value
                 ELSE DictGet(r.value, "items", JList(<<>>))
        crawls == IF items.t = "list"
                  THEN SubSeq(items.v, 1, IF Len(items.v) < MAX_CRAWLS_DISPLAYED
                                          THEN Len(items.v) ELSE MAX_CRAWLS_DISPLAYED)
                  ELSE <<>>
    IN  IF crawls = <<>>
        THEN Text("No recent crawls found.", <<>>)
        ELSE Text("Here are the latest 5 Audisto crawls:",
                  [i \in 1..Len(crawls) |-> CrawlLine(crawls[i])])

\* Lines 188-196: the text get_crawl_summary makes of a CrawlSummary.
FormatSummary(r, a) ==
    Text("Crawl Summary for ID ",
         <<FormatId(a), OrNA(r.value.v["domain"]), OrNA(r.value.v["crawled_pages"]),
           OrNA(r.value.v["max_depth"]), OrNA(r.value.v["start_time"])>>)

\* A tool is called: get_client() of line 135 or 185. Without credentials
\* get_auth raises and the except clause of the tool returns its text.
ToolStart(t, name, a) ==
    /\ server # "exited"
    /\ pc[t] = "idle"
    /\ tool[t] = NoTool
    /\ tool' = [tool EXCEPT ![t] = [name |-> name, arg |-> a]]
    /\ out' = [out EXCEPT ![t] =
                  IF get_auth(env).kind = "ValueError"
                  THEN ToolExcept([name |-> name, arg |-> a], get_auth(env))
                  ELSE NoOut]
    /\ UNCHANGED <<clientvars, env, server>>

ToolStartAny(t) ==
    \/ ToolStart(t, "get_crawl_status", PyArg("NoneType", 0))
    \/ \E a \in ToolCrawlIds : ToolStart(t, "get_crawl_summary", a)

\* Line 136: client.get_crawl_status_v2().
ToolInvokeStatus(t) ==
    /\ tool[t].name = "get_crawl_status"
    /\ out[t] = NoOut
    /\ CallStatus(t)

\* Line 186: client.get_crawl_summary_v2(crawl_id).
ToolInvokeSummary(t) ==
    /\ tool[t].name = "get_crawl_summary"
    /\ out[t] = NoOut
    /\ CallSummary(t, tool[t].arg)

\* The client's operation has returned or raised: the tool formats the result,
\* or its except clause the exception.
ToolFinish(t) ==
    /\ tool[t] # NoTool
    /\ out[t] = NoOut
    /\ pc[t] \in {"done", "failed"}
    /\ out' = [out EXCEPT ![t] =
                  IF pc[t] = "failed" THEN ToolExcept(tool[t], result[t])
                  ELSE IF tool[t].name = "get_crawl_status" THEN FormatStatus(result[t])
                  ELSE FormatSummary(result[t], tool[t].arg)]
    /\ UNCHANGED <<clientvars, env, tool, server>>

\* The server module under any environment: its startup check, and one caller
\* of its two tools against a server that may answer anything.
ToolNext ==
    \/ Main
    \/ ToolStartAny(1)
    \/ ToolInvokeStatus(1)
    \/ ToolInvokeSummary(1)
    \/ Acquire(1)
    \/ AttemptFails(1)
    \/ ReplyStatusAny(1)
    \/ ReplySummaryAny(1)
    \/ ReplyError(1)
    \/ RaiseForStatus(1)
    \/ StatusParse(1)
    \/ SummaryParse(1)
    \/ ToolFinish(1)

ToolSpec == ToolInit /\ [][ToolNext]_vars

\* What a thread does without waiting for its caller: it takes the lock once it
\* is free, its network call ends (every call carries the timeout of line 44),
\* and it runs the code that follows the call.
Progress(t) ==
    \/ Acquire(t)
    \/ AttemptFails(t)
    \/ ReplyStatus(t)
    \/ ReplySummary(t)
    \/ ReplyChunkConc(t)
    \/ ReplyNotFound(t)
    \/ RaiseForStatus(t)
    \/ StatusParse(t)
    \/ SummaryParse(t)
    \/ ChunkParse(t)

\* Thread 1 iterates a chunked endpoint, and may abandon the sequence; every
\* other thread runs one of the two unpaged operations on the same client.
AbandonNext ==
    \/ CallIterChunked(1, MinChunkSize)
    \/ GenStart(1)
    \/ NextItem(1)
    \/ NextPage(1)
    \/ Abandon(1)
    \/ \E t \in Threads \ {1} : CallStatus(t) \/ CallSummary(t, PyArg("int", 12))
    \/ \E t \in Threads : Progress(t)

\* That mix with every thread scheduled fairly. The callers stay free to call,
\* to ask for the next item and to abandon, or not to.
FairSpec == Init /\ [][AbandonNext]_vars /\ \A t \in Threads : WF_vars(Progress(t))

\* ================================================================ claims
\* The threads inside session.get.
InFlight == {t \in Threads : pc[t] = "in_get"}

RECURSIVE Flatten(_)
Flatten(pages) == IF pages = <<>> THEN <<>> ELSE Head(pages) \o Flatten(Tail(pages))

IsIter(t) == op[t].name = "iter"

\* C1: whatever mix of the three operations the callers of one client run, at
\* most one of them is inside a network call at any moment.
C1_AtMostOneInFlight == Cardinality(InFlight) <= 1

\* A call is in flight while another caller is held at the lock.
C1_Witness ==
    \E t, u \in Threads : pc[t] = "in_get" /\ pc[u] = "wait_lock" /\ op[t].name # op[u].name

\* C2: while a request of an iteration is out (issued, its page not yet read),
\* every item of every page received before it has been handed to the consumer,
\* and the consumer has asked for one more item than it was given.
C2_NoRequestBeforePageHandedOut ==
    \A t \in Threads :
        (IsIter(t) /\ Len(reqs[t]) > Len(fetched[t]))
            => /\ yielded[t] = Flatten(fetched[t])
               /\ asks[t] = Len(yielded[t]) + 1

\* The second request is in flight after a first page of two items.
C2_Witness ==
    \E t \in Threads :
        /\ IsIter(t) /\ pc[t] = "in_get"
        /\ Len(reqs[t]) = 2 /\ Len(yielded[t]) = 2 /\ asks[t] = 3

\* C3: the lock is held exactly while some thread is inside session.get: it is
\* free in every other phase of every operation (URL construction, status check,
\* parsing, bookkeeping, suspension at a yield) and after a call that raised.
C3_LockOnlyDuringCall == lock <=> (InFlight # {})

\* An iteration has issued its first page request and waits at the lock for its
\* second, while another operation's call is in flight.
C3_Witness ==
    \E t, u \in Threads :
        /\ IsIter(t) /\ pc[t] = "wait_lock" /\ Len(reqs[t]) = 1
        /\ ~IsIter(u) /\ pc[u] = "in_get"

\* A thread with a step of its own to take: at the lock, inside the call, or
\* holding a response it has not processed.
Pending(t) == pc[t] \in {"wait_lock", "in_get", "got_resp"}

Abandoned(t) == pc[t] = "closed"

\* C4: an abandoned iteration stays abandoned and issues no further network call;
\* while it is abandoned the lock, if held, is held by a thread inside a call of
\* its own; and every other thread that is at the lock, in a call or holding a
\* response gets through that step.
C4_AbandonedIterationIsInert ==
    /\ [][\A t \in Threads :
            Abandoned(t) => (pc'[t] = "closed" /\ reqs'[t] = reqs[t])]_vars
    /\ [](\A t \in Threads : Abandoned(t) => (lock => InFlight # {}))
    /\ \A u \in Threads :
          (Pending(u) /\ \E t \in Threads \ {u} : Abandoned(t)) ~> ~Pending(u)

\* An iteration was abandoned after the first of the two items of its first
\* page, and another thread's call is in flight.
C4_Witness ==
    \E t, u \in Threads :
        /\ Abandoned(t) /\ Len(yielded[t]) = 1 /\ Len(fetched[t]) = 1 /\ Len(fetched[t][1]) = 2
        /\ pc[u] = "in_get"

\* C5: an iteration called with a chunk size outside [1, 10000] issues no
\* network call and, as soon as its body runs (the consumer's first request for
\* an item), has failed with ValueError; one called with a chunk size inside
\* [1, 10000] never fails with ValueError.
C5_ChunkSizeChecked ==
    \A t \in Threads :
        IsIter(t) =>
            IF op[t].arg.val < 1 \/ op[t].arg.val > 10000
            THEN /\ reqs[t] = <<>>
                 /\ pc[t] \in {"created", "failed", "closed"}
                 /\ pc[t] = "failed" => result[t].kind = "ValueError"
                 /\ asks[t] > 0 => pc[t] = "failed"
            ELSE result[t].kind # "ValueError"

\* A chunk size of 10001 has been refused on the first request for an item.
C5_Witness ==
    \E t \in Threads :
        /\ IsIter(t) /\ op[t].arg.val = 10001
        /\ pc[t] = "failed" /\ result[t].kind = "ValueError" /\ asks[t] = 1

\* The URL get_crawl_summary_v2 is expected to ask for.
C6_ExpectedUrl(a) ==
    CASE a.type = "bool" -> <<"/crawls/", "True">>
      [] a.type = "int" /\ a.val = 0 -> <<"/crawls/", "0">>
      [] a.type = "int" /\ a.val = 12 -> <<"/crawls/", "1", "2">>

\* C6: get_crawl_summary_v2 with a crawl id that is not an integer or is negative
\* has failed with ValueError and issued no network call (so never took the
\* lock); with a non-negative integer it never fails with ValueError and, once
\* past the lock, has issued exactly one GET, to /crawls/{id}.
C6_CrawlIdChecked ==
    \A t \in Threads :
        op[t].name = "summary" =>
            IF op[t].arg.type \in {"str", "float", "NoneType"} \/ op[t].arg.val < 0
            THEN pc[t] = "failed" /\ result[t].kind = "ValueError" /\ reqs[t] = <<>>
            ELSE /\ result[t].kind # "ValueError"
                 /\ pc[t] = "wait_lock" => reqs[t] = <<>>
                 /\ pc[t] # "wait_lock" =>
                        reqs[t] = <<[url |-> C6_ExpectedUrl(op[t].arg), params |-> <<>>]>>

\* One caller's id -1 was refused; another's id 12 was fetched with one GET.
C6_Witness ==
    \E t, u \in Threads :
        /\ op[t].name = "summary" /\ op[t].arg = PyArg("int", -1) /\ pc[t] = "failed"
        /\ op[u].name = "summary" /\ op[u].arg = PyArg("int", 12) /\ pc[u] = "done"
        /\ Len(reqs[u]) = 1

\* A page with at least one item whose chunk object carries total, page and size.
C7_FullPage(body) ==
    /\ IsDict(body)
    /\ Len(ItemsOf(body)) >= 1
    /\ "chunk" \in DOMAIN body.v
    /\ IsDict(body.v["chunk"])
    /\ \A key \in {"total", "page", "size"} :
          key \in DOMAIN body.v["chunk"].v /\ body.v["chunk"].v[key].t = "int"

\* (page + 1) * size of the page's chunk object, and its total.
C7_Reach(body) == (body.v["chunk"].v["page"].v + 1) * body.v["chunk"].v["size"].v
C7_Total(body) == body.v["chunk"].v["total"].v

\* C7: when the consumer asks for more after such a page, the iteration goes for
\* another page if (page+1)*size < total, and otherwise ends without a request;
\* a thread at the lock moves only by issuing its request, and an iteration that
\* has ended issues none.
C7_ContinuesIffBelowTotal ==
    [][\A t \in Threads :
          /\ (IsIter(t) /\ pc[t] = "suspended" /\ pc'[t] \notin {"suspended", "closed"}
                /\ C7_FullPage(resp[t].body))
                => IF C7_Reach(resp[t].body) < C7_Total(resp[t].body)
                   THEN pc'[t] = "wait_lock"
                   ELSE pc'[t] = "done" /\ reqs'[t] = reqs[t]
          /\ (pc[t] = "wait_lock" /\ pc'[t] # "wait_lock")
                => pc'[t] = "in_get" /\ Len(reqs'[t]) = Len(reqs[t]) + 1
          /\ pc[t] = "done" => pc'[t] = "done" /\ reqs'[t] = reqs[t]]_vars

\* The iteration ended after its second page, which reached the total exactly.
C7_Witness ==
    \E t \in Threads :
        /\ IsIter(t) /\ pc[t] = "done" /\ Len(reqs[t]) = 2
        /\ C7_FullPage(resp[t].body)
        /\ C7_Reach(resp[t].body) = C7_Total(resp[t].body)

IsPrefix(a, b) == Len(a) <= Len(b) /\ a = SubSeq(b, 1, Len(a))

\* C8: what an iteration has yielded is always a prefix of the concatenation, in
\* page order, of the items arrays it received, no item twice; once it is
\* drained it has yielded all of it, with one network call a page.
C8_DrainedYieldsPagesInOrder ==
    \A t \in Threads :
        IsIter(t) =>
            /\ IsPrefix(yielded[t], Flatten(fetched[t]))
            /\ \A i, j \in 1..Len(yielded[t]) : yielded[t][i] = yielded[t][j] => i = j
            /\ pc[t] = "done" =>
                  /\ yielded[t] = Flatten(fetched[t])
                  /\ Len(reqs[t]) = Len(fetched[t])

\* The pages of test_iter_chunked_stops: items 1, 2 then 3, in two calls.
C8_Witness ==
    \E t \in Threads :
        /\ IsIter(t) /\ pc[t] = "done" /\ Len(reqs[t]) = 2
        /\ yielded[t] = <<Item(1), Item(2), Item(3)>>
        /\ C7_FullPage(resp[t].body)
        /\ C7_Total(resp[t].body) = 3 /\ C7_Reach(resp[t].body) = 4

\* C9: once the last page an iteration received had no items, the iteration is
\* over, with no request after that page; it ended normally unless the page's
\* chunk entry is not a mapping.
C9_EmptyPageStops ==
    \A t \in Threads :
        (IsIter(t) /\ fetched[t] # <<>> /\ fetched[t][Len(fetched[t])] = <<>>)
            => /\ pc[t] \in {"done", "failed"}
               /\ Len(reqs[t]) = Len(fetched[t])
               /\ pc[t] = "failed" => result[t].kind = "AttributeError"
               /\ IsDict(DictGet(resp[t].body, "chunk", EmptyDict)) => pc[t] = "done"

\* The only page was empty while its chunk object told of MaxTotal items, one a page.
C9_Witness ==
    \E t \in Threads :
        /\ IsIter(t) /\ pc[t] = "done" /\ Len(reqs[t]) = 1
        /\ resp[t].body = ShapedBody(1, [n |-> 0,
              chunk |-> JDict(("total" :> JInt(MaxTotal)) @@ ("page" :> JInt(0))
                                @@ ("size" :> JInt(1)))])

\* C10: once an iteration has read a 200 response whose body is not a mapping,
\* it has failed with RuntimeError, that response was its last request, and what
\* it has yielded is exactly the items of the pages before it.
C10_NonMappingBodyFails ==
    \A t \in Threads :
        (IsIter(t) /\ resp[t].status = 200 /\ ~IsDict(resp[t].body) /\ pc[t] # "got_resp")
            => /\ pc[t] = "failed" /\ result[t].kind = "RuntimeError"
               /\ Len(reqs[t]) = Len(fetched[t]) + 1
               /\ yielded[t] = Flatten(fetched[t])

\* The second response was no mapping, after the two items of the first page.
C10_Witness ==
    \E t \in Threads :
        /\ IsIter(t) /\ pc[t] = "failed" /\ result[t].kind = "RuntimeError"
        /\ Len(reqs[t]) = 2 /\ Len(yielded[t]) = 2

\* C11: once get_crawl_status_v2 has read the body of a 2xx response, it has
\* returned, whatever the decoded body: a Crawl Status Response, or a mapping
\* that is the body itself when the body is a mapping.
C11_StatusNeverRaisesOnShape ==
    \A t \in Threads :
        (op[t].name = "status" /\ resp[t].status = 200 /\ pc[t] # "got_resp")
            => /\ pc[t] = "done"
               /\ result[t].kind \in {"CrawlStatusResponse", "dict"}
               /\ (result[t].kind = "dict" /\ IsDict(resp[t].body))
                      => result[t].value = resp[t].body

\* C12: against a server that answers every attempt with 429, an operation that
\* has issued its request never gets a response; it fails only once the first
\* attempt and 3 retries (4 attempts) are used up, and then with RetryError,
\* not with an HTTP error.
C12_RateLimitedEndsInRetryError ==
    \A t \in Threads :
        reqs[t] # <<>> =>
            /\ pc[t] \in {"in_get", "failed"}
            /\ resp[t] = NoResp
            /\ pc[t] = "failed" =>
                  /\ result[t].kind = "RetryError"
                  /\ result[t].kind # "HTTPError" /\ result[t].status # 429
                  /\ attempts[t] + 1 = 4
                  /\ Len(reqs[t]) = 1

\* test_get_crawl_status_v2_rate_limit: four 429 answers, then RetryError.
C12_Witness ==
    \E t \in Threads :
        /\ op[t].name = "status" /\ pc[t] = "failed"
        /\ result[t].kind = "RetryError" /\ attempts[t] = max_retries

\* C13: a 404 is no status the adapter retries; once get_crawl_summary_v2 has
\* received one, its single request ends in an HTTP error of status 404, never
\* in RetryError, and an HTTP error carries the status 404 only if the response
\* had it.
C13_NotFoundSurfacesAs404 ==
    /\ ~Retryable(StatusOutcome(404))
    /\ \A t \in Threads :
          op[t].name = "summary" =>
              /\ resp[t].status = 404 =>
                    /\ pc[t] \in {"got_resp", "failed"}
                    /\ Len(reqs[t]) = 1
                    /\ pc[t] = "failed" =>
                          /\ result[t].kind = "HTTPError" /\ result[t].status = 404
                          /\ result[t].kind # "RetryError"
              /\ (result[t].kind = "HTTPError" /\ resp[t].status # 404)
                    => result[t].status # 404 /\ result[t].status = resp[t].status

\* test_get_crawl_summary_v2_not_found: the summary of an unknown crawl.
C13_Witness ==
    \E t \in Threads :
        /\ op[t].name = "summary" /\ op[t].arg = PyArg("int", 12)
        /\ pc[t] = "failed" /\ result[t] = HTTPError(404) /\ Len(reqs[t]) = 1

\* A list of mappings each of which is a crawl-status item: id an integer or
\* null, domain and status a string or null.
C14_ItemsList(x) ==
    /\ x.t = "list"
    /\ \A i \in 1..Len(x.v) :
          /\ x.v[i].t = "dict"
          /\ \A key \in DOMAIN x.v[i].v :
                \/ key = "id" /\ x.v[i].v[key].t \in {"int", "null"}
                \/ key \in {"domain", "status"} /\ x.v[i].v[key].t \in {"str", "null"}

\* The result is a Crawl Status Response holding the items of x in their order.
C14_Wraps(r, x) ==
    /\ r.kind = "CrawlStatusResponse"
    /\ Len(r.value.v) = Len(x.v)
    /\ \A i \in 1..Len(x.v) : \A key \in {"id", "domain", "status"} :
          r.value.v[i].v[key] = IF key \in DOMAIN x.v[i].v THEN x.v[i].v[key] ELSE JNull

\* C14: get_crawl_status_v2 returns, for a mapping whose items key holds a list
\* of crawl-status items, a Crawl Status Response of those items in the server's
\* order, the same result as for the bare list of those items; and for a bare
\* list of such items the same result as for the mapping that holds it.
C14_MappingAndListAgree ==
    \A t \in Threads :
        (op[t].name = "status" /\ resp[t].status = 200 /\ pc[t] # "got_resp") =>
            LET body == resp[t].body
            IN  /\ (IsDict(body) /\ "items" \in DOMAIN body.v /\ C14_ItemsList(body.v["items"]))
                      => /\ pc[t] = "done"
                         /\ C14_Wraps(result[t], body.v["items"])
                         /\ result[t] = ParseStatus(body.v["items"])
                /\ C14_ItemsList(body)
                      => /\ pc[t] = "done"
                         /\ C14_Wraps(result[t], body)
                         /\ result[t] = ParseStatus(JDict("items" :> body))

\* The bare list of the two items of the tests was wrapped, in order.
C14_Witness ==
    \E t \in Threads :
        /\ op[t].name = "status" /\ pc[t] = "done"
        /\ resp[t].body = JList(<<CrawlItem, CrawlItem2>>)
        /\ result[t].kind = "CrawlStatusResponse"
        /\ result[t].value.v[1].v["domain"] = JStr("example.com")
        /\ result[t].value.v[2].v["domain"] = JStr("test.com")

\* C15: whatever a call of get_crawl_status or get_crawl_summary ends in, what
\* the tool hands back is a text and never an exception; it hands back nothing
\* only while the call is still under way.
C15_ToolsReturnText ==
    \A t \in Threads :
        /\ out[t].kind \in {"none", "text"}
        /\ out[t].kind # "raised"
        /\ (tool[t] # NoTool /\ out[t] = NoOut) => get_auth(env).kind # "ValueError"

\* The status tool has answered a body the client raised TypeError on.
C15_Witness ==
    \E t \in Threads :
        /\ tool[t].name = "get_crawl_status" /\ pc[t] = "failed"
        /\ result[t].kind = "TypeError" /\ out[t].kind = "text"

\* The messages of the failure kinds that have one of their own.
C16_TimeoutMsg == "Error: Request timeout. Audisto API is not responding."
C16_ConnectionMsg == "Error: Failed to connect to Audisto API"
C16_CredentialsMsg == "Error: Missing or invalid credentials"
C16_RateLimitMsg == "Error: Rate limit exceeded. Please wait and try again."
C16_StatusMsg == "Error: Audisto API returned status "
C16_NotFoundMsgs == {"Error: Resource not found.", "Error: Crawl ID not found."}

\* C16: the text a tool returns for a failure is the message of that failure's
\* kind: the credentials message when get_auth found no credentials, the timeout
\* message for a timeout, a not-found message for a 404, the status message with
\* the status for another HTTP error, the connection message for a connection
\* error, and for a failure of any other kind (a crawl id refused by the client,
\* a body of the wrong shape) none of those messages.
C16_MessageKeyedByKind ==
    \A t \in Threads :
        (tool[t] # NoTool /\ out[t] # NoOut /\ pc[t] # "done") =>
            LET e == result[t]
            IN  CASE pc[t] = "idle" -> out[t].msg = C16_CredentialsMsg
                  [] pc[t] = "failed" /\ e.kind = "ConnectTimeout" ->
                        out[t].msg = C16_TimeoutMsg
                  [] pc[t] = "failed" /\ e.kind = "ConnectionError" ->
                        out[t].msg = C16_ConnectionMsg
                  [] pc[t] = "failed" /\ e.kind = "HTTPError" ->
                        IF e.status = 404 THEN out[t].msg \in C16_NotFoundMsgs
                        ELSE IF e.status = 429 THEN out[t].msg = C16_RateLimitMsg
                        ELSE out[t].msg = C16_StatusMsg /\ out[t].detail = Decimal(e.status)
                  [] pc[t] = "failed" /\ e.kind = "RetryError" ->
                        out[t].msg \in {C16_RateLimitMsg, C16_ConnectionMsg}
                  [] OTHER ->
                        out[t].msg \notin {C16_TimeoutMsg, C16_ConnectionMsg, C16_CredentialsMsg,
                                           C16_RateLimitMsg, C16_StatusMsg} \cup C16_NotFoundMsgs

\* C17: while AUDISTO_API_KEY or AUDISTO_PASSWORD is not set or is empty, the
\* server never gets past its startup check, and a tool that was called has
\* issued no request and has returned the credentials message.
C17_NoCredentialsNoCalls ==
    (\E n \in {"AUDISTO_API_KEY", "AUDISTO_PASSWORD"} : env[n] \in {"unset", "empty"}) =>
        /\ server \in {"init", "exited"}
        /\ \A t \in Threads :
              /\ reqs[t] = <<>> /\ pc[t] = "idle"
              /\ tool[t] # NoTool =>
                    out[t] = Text("Error: Missing or invalid credentials", <<>>)

\* With an empty key, get_crawl_summary(12) gave the credentials message and the
\* startup check stopped the server.
C17_Witness ==
    \E t \in Threads :
        /\ env["AUDISTO_API_KEY"] = "empty" /\ env["AUDISTO_PASSWORD"] = "set"
        /\ tool[t] = [name |-> "get_crawl_summary", arg |-> PyArg("int", 12)]
        /\ out[t].kind = "text" /\ reqs[t] = <<>>
        /\ server = "exited"

\* The page value the chunk object of a body reports, if it reports one.
C18_ReportsPage(body) ==
    /\ IsDict(body) /\ "chunk" \in DOMAIN body.v /\ IsDict(body.v["chunk"])
    /\ "page" \in DOMAIN body.v["chunk"].v
    /\ body.v["chunk"].v["page"].t = "int"

\* The iteration leaves a page for the next request.
C18_GoesOn(t) == IsIter(t) /\ pc[t] \in {"got_resp", "suspended"} /\ pc'[t] = "wait_lock"

\* C18: the first request of an iteration asks for chunk 0 with the caller's
\* chunk size; when the iteration goes on after a page, the chunk it asks for
\* next is the page value that page reported plus one, whatever chunk had been
\* asked for, or the local counter plus one when the page reported none; and
\* each request carries the chunk so chosen and the caller's chunk size.
C18_ReportedPageWins ==
    /\ [](\A t \in Threads :
             (IsIter(t) /\ reqs[t] # <<>>) =>
                 reqs[t][1].params = ("chunk" :> JInt(0)) @@ ("chunksize" :> JInt(op[t].arg.val)))
    /\ [][\A t \in Threads :
             /\ C18_GoesOn(t) =>
                   page'[t] = JInt(1 + IF C18_ReportsPage(resp[t].body)
                                       THEN resp[t].body.v["chunk"].v["page"].v
                                       ELSE reqs[t][Len(reqs[t])].params["chunk"].v)
             /\ (IsIter(t) /\ pc[t] = "wait_lock" /\ pc'[t] = "in_get") =>
                   /\ Len(reqs'[t]) = Len(reqs[t]) + 1
                   /\ reqs'[t][Len(reqs'[t])].params =
                          ("chunk" :> page[t]) @@ ("chunksize" :> JInt(op[t].arg.val))]_vars

\* The reply to chunk 0 reported page 1, so the second request asks for chunk 2.
C18_Witness ==
    \E t \in Threads :
        /\ IsIter(t) /\ Len(reqs[t]) = 2
        /\ reqs[t][1].params["chunk"] = JInt(0)
        /\ reqs[t][2].params["chunk"] = JInt(2)

\* A mapping body with items whose chunk object is absent or holds no total.
C19_ItemsWithoutTotal(body) ==
    /\ IsDict(body)
    /\ Len(ItemsOf(body)) >= 1
    /\ \/ "chunk" \notin DOMAIN body.v
       \/ IsDict(body.v["chunk"]) /\ "total" \notin DOMAIN body.v["chunk"].v

\* C19: an iteration that has received such a page leaves it only by ending
\* (or by the consumer giving it up): it has then yielded every item of the
\* page, and it issues no request while it holds the page or after it has ended.
C19_NoTotalStops ==
    [][\A t \in Threads :
          /\ (IsIter(t) /\ C19_ItemsWithoutTotal(resp[t].body)) =>
                /\ reqs'[t] = reqs[t]
                /\ pc'[t] \in {"got_resp", "suspended", "done", "closed"}
                /\ pc'[t] = "done" =>
                      /\ yielded'[t] = Flatten(fetched'[t])
                      /\ Len(fetched'[t]) = Len(reqs[t])
          /\ pc[t] = "done" => pc'[t] = "done" /\ reqs'[t] = reqs[t]]_vars

\* Two items and no chunk object: both yielded, one request, the end.
C19_Witness ==
    \E t \in Threads :
        /\ IsIter(t) /\ pc[t] = "done" /\ Len(reqs[t]) = 1
        /\ resp[t].body = ShapedBody(1, [n |-> 2, chunk |-> NoKey])
        /\ Len(yielded[t]) = 2

\* C20: an iteration issues no request before the consumer asks for the first
\* item, and never more requests than the consumer has asked for items; a request
\* beyond the pages received is under way only when every item received has
\* been handed out and the consumer has asked for one more; and when a page
\* reports no page value, or the one that was asked for, the next chunk asked
\* for is the one after it.
C20_LazyForwardOnly ==
    /\ [](\A t \in Threads :
             IsIter(t) =>
                 /\ asks[t] = 0 => reqs[t] = <<>> /\ pc[t] \in {"created", "closed"}
                 /\ Len(reqs[t]) <= asks[t]
                 /\ Len(reqs[t]) <= Len(fetched[t]) + 1
                 /\ pc[t] \in {"wait_lock", "in_get"} =>
                       /\ yielded[t] = Flatten(fetched[t])
                       /\ asks[t] = Len(yielded[t]) + 1)
    /\ [][\A t \in Threads :
             (C18_GoesOn(t)
                /\ (C18_ReportsPage(resp[t].body) =>
                       resp[t].body.v["chunk"].v["page"] = page[t]))
                => page'[t].v = page[t].v + 1]_vars

\* The third item asked for is on the second page: its request is under way.
C20_Witness ==
    \E t \in Threads :
        /\ IsIter(t) /\ pc[t] = "in_get"
        /\ Len(reqs[t]) = 2 /\ Len(fetched[t]) = 1 /\ Len(yielded[t]) = 2 /\ asks[t] = 3

\* C21: against a server that reports a fixed total and a size on every page,
\* whatever page index and items it sends, a consumer that keeps draining the
\* iteration reaches its end or a failure; on the way the iteration asks for no
\* chunk twice (a server that answers a chunk the same way each time would be
\* asked for it for ever).
C21_DrainingEnds ==
    /\ [](\A t \in Threads :
             IsIter(t) =>
                 \A i, j \in 1..Len(reqs[t]) :
                     reqs[t][i].params["chunk"] = reqs[t][j].params["chunk"] => i = j)
    /\ \A t \in Threads : IsIter(t) ~> pc[t] \in {"done", "failed"}

\* C22: while a thread is inside its network call, retries and backoff waits
\* included, the lock is held and stays held as long as the thread stays inside;
\* no other thread enters a call, sends an attempt or issues a request; and the
\* lock is released in the very step in which the thread leaves the call, and
\* in no other step.
C22_RetriesInsideOneCriticalSection ==
    /\ [](\A t \in Threads : pc[t] = "in_get" => lock /\ InFlight = {t})
    /\ [][/\ \A t \in Threads :
                pc[t] = "in_get" =>
                    /\ pc'[t] = "in_get" => lock' /\ reqs'[t] = reqs[t]
                    /\ pc'[t] # "in_get" => ~lock'
                    /\ \A u \in Threads \ {t} :
                          /\ pc'[u] # "in_get"
                          /\ attempts'[u] = attempts[u]
                          /\ reqs'[u] = reqs[u]
          /\ (lock /\ ~lock') => \E t \in Threads : pc[t] = "in_get" /\ pc'[t] # "in_get"
          /\ (~lock /\ lock') => \E t \in Threads : pc[t] = "wait_lock" /\ pc'[t] = "in_get"]_vars

\* One thread has used up its retries inside its call and raised RetryError;
\* another is now inside its own call, two retries in, holding the lock.
C22_Witness ==
    \E t, u \in Threads :
        /\ pc[t] = "failed" /\ result[t].kind = "RetryError" /\ attempts[t] = max_retries
        /\ pc[u] = "in_get" /\ attempts[u] = 2
        /\ lock

====
